---- MODULE Spec2Model ----
(***************************************************************************)
(* Model of the live-session controller of CoachFlow: the LiveSession      *)
(* React component (src/components/LiveSession.tsx, first definition,      *)
(* lines 134-263) together with the part of App.tsx that receives          *)
(* onEndSession and unmounts the component.                                *)
(*                                                                         *)
(* One controller instance is modelled from mount to unmount; promises and *)
(* recorder events that are still pending at unmount keep running, as they *)
(* do in the browser.  Every event handler runs to completion (JavaScript  *)
(* is single threaded) and React commits the state it set before the next  *)
(* event is handled, so each handler is one action.                        *)
(***************************************************************************)
EXTENDS Integers, Sequences, FiniteSets, TLC

(* ------------------------------ bounds --------------------------------- *)
MaxCaptures == 2       \* captureFrame invocations in one run
MaxBusyTicks == 1      \* timer ticks that find the previous call outstanding
MaxSuggestions == 1    \* suggestion texts one result may carry
MaxChunks == 1         \* dataavailable events of the recorder
MaxElapsed == 1        \* one-second ticks of the elapsed-time counter
MaxAccess == 1         \* getUserMedia requests pending at once
MaxRequests == 2       \* the same, where overlapping requests are studied
MaxCleanupRuns == 2    \* runs of the cleanup function that stop tracks
MaxBuffered == 2       \* chunks in the buffer, where the buffer is studied
MaxTexts == 4          \* suggestion texts of a long answer
MaxEndCalls == 2       \* invocations of handleEndSession, where App is studied
MaxSamples == 2        \* samples handed to handleEndSession there

(* --------------------------- program constants ------------------------- *)
SuggestionCapacity == 6
SecondsPerSample == 4
TextsPerSample == 3
FallbackConfidence == 70
ParsedConfidence == 85
DefaultRetries == 2
DefaultDelay == 1000

VARIABLES
  mounted,            \* the LiveSession component is mounted
  sessionState,       \* useState 'permission' | 'green-room' | 'live'
  stream,             \* useState<MediaStream | null>, 0 is null
  streamRef,          \* useRef<MediaStream | null>, 0 is null
  cameraError,        \* useState<string | null>
  pendingAccess,      \* getUserMedia promises not yet settled
  grantedStreams,     \* streams getUserMedia has handed out
  stoppedStreams,     \* streams whose tracks have been stopped
  stopCalls,          \* streams on whose tracks stop() was invoked, per invocation
  metricsHistory,     \* useState<AnalysisResult[]>
  currentMetrics,     \* useState<AnalysisResult | null>, tick 0 is null
  liveSuggestions,    \* useState<Suggestion[]>
  elapsedTime,        \* useState(0)
  chunksRef,          \* useRef<Blob[]>
  mediaRecorderRef,   \* "null" or "recorder"
  recorderState,      \* MediaRecorder.state: "inactive" | "recording"
  stopEventPending,   \* the recorder's stop event is queued
  onstopMetrics,      \* metricsHistory as captured by the recorder.onstop closure
  analysisInterval,   \* useRef<number | null>, 0 is null
  activeIntervals,    \* interval ids that window still fires
  nextTimerId,        \* next id window.setInterval returns
  isAnalyzingRef,     \* useRef(false)
  inFlight,           \* analyzeSessionSnapshot calls not yet resolved (by tick)
  callsIssued,        \* analyzeSessionSnapshot invocations so far
  captures,           \* captureFrame invocations so far
  busyTicks,          \* ticks that returned at the isAnalyzingRef guard
  endCalls,           \* invocations of onEndSession, in order
  stopRequests,       \* stopSession invocations so far
  outstandingAtStop,  \* calls that were outstanding when stopSession ran
  recorderStarted,    \* recorder.start() has returned normally
  sessionHistory,     \* App: useState<SessionData[]>
  lastEvent           \* the event handled last

vars == <<mounted, sessionState, stream, streamRef, cameraError, pendingAccess,
          grantedStreams, stoppedStreams, stopCalls, metricsHistory, currentMetrics,
          liveSuggestions, elapsedTime, chunksRef, mediaRecorderRef,
          recorderState, stopEventPending, onstopMetrics, analysisInterval,
          activeIntervals, nextTimerId, isAnalyzingRef, inFlight, callsIssued,
          captures, busyTicks, endCalls, stopRequests, outstandingAtStop,
          recorderStarted, sessionHistory, lastEvent>>

(* The state the component and the platform hold, without the history      *)
(* variable lastEvent.                                                     *)
progVars == <<mounted, sessionState, stream, streamRef, cameraError,
              pendingAccess, grantedStreams, stoppedStreams, stopCalls, metricsHistory,
              currentMetrics, liveSuggestions, elapsedTime, chunksRef,
              mediaRecorderRef, recorderState, stopEventPending, onstopMetrics,
              analysisInterval, activeIntervals, nextTimerId, isAnalyzingRef,
              inFlight, callsIssued, captures, busyTicks, endCalls,
              stopRequests, outstandingAtStop, recorderStarted,
                 sessionHistory>>

(* ------------------------------ helpers -------------------------------- *)
Take(s, n) == SubSeq(s, 1, IF Len(s) < n THEN Len(s) ELSE n)

IsPrefix(s, t) == Len(s) <= Len(t) /\ SubSeq(t, 1, Len(s)) = s

NoBlob == [present |-> FALSE, chunks |-> <<>>]

Blob(chunks) == [present |-> TRUE, chunks |-> chunks]

(* App's sessionHistory in the renders that had the controller mounted:    *)
(* the value the handleEndSession instances held by the controller close   *)
(* over.                                                                   *)
HistoryAtMount == <<>>

Init ==
  /\ mounted = TRUE
  /\ sessionState = "permission"
  /\ stream = 0
  /\ streamRef = 0
  /\ cameraError = "null"
  /\ pendingAccess = 0
  /\ grantedStreams = {}
  /\ stoppedStreams = {}
  /\ stopCalls = <<>>
  /\ metricsHistory = <<>>
  /\ currentMetrics = 0
  /\ liveSuggestions = <<>>
  /\ elapsedTime = 0
  /\ chunksRef = <<>>
  /\ mediaRecorderRef = "null"
  /\ recorderState = "inactive"
  /\ stopEventPending = FALSE
  /\ onstopMetrics = <<>>
  /\ analysisInterval = 0
  /\ activeIntervals = {}
  /\ nextTimerId = 1
  /\ isAnalyzingRef = FALSE
  /\ inFlight = {}
  /\ callsIssued = 0
  /\ captures = 0
  /\ busyTicks = 0
  /\ endCalls = <<>>
  /\ stopRequests = 0
  /\ outstandingAtStop = {}
  /\ recorderStarted = FALSE
  /\ sessionHistory = HistoryAtMount
  /\ lastEvent = "mount"

(* ------------------------ inputs of the environment -------------------- *)
RecorderOutcomes == {"ok", "ctor_throws", "start_throws"}

CaptureOutcomes == {"frame", "none", "throws"}

AccessErrors == {"NotAllowedError", "NotFoundError", "NotReadableError"}

SuggestionCounts == 0..MaxSuggestions

(* --------------------------- performAnalysis --------------------------- *)
(* A mutant of the guard: the busy flag is not consulted. *)
AnalysisGuardMissing == FALSE

(* if (isAnalyzingRef.current) return; *)
AnalysisGuard == isAnalyzingRef

(* A mutant of the capture test: the flag stays set when captureFrame      *)
(* yields nothing.                                                         *)
FlagAfterCaptureStuck(cap) == TRUE

(* isAnalyzingRef.current once performAnalysis has returned or reached its *)
(* await: `if (!imageBase64) { isAnalyzingRef.current = false; return; }`, *)
(* and the finally block when captureFrame throws.                         *)
FlagAfterCapture(cap) == cap = "frame"

(* performAnalysis up to its await: guard, flag, captureFrame, call. *)
PerformAnalysis(cap) ==
  IF AnalysisGuard
  THEN /\ busyTicks' = busyTicks + 1
       /\ UNCHANGED <<isAnalyzingRef, inFlight, callsIssued, captures>>
  ELSE /\ captures' = captures + 1
       /\ busyTicks' = busyTicks
       /\ isAnalyzingRef' = FlagAfterCapture(cap)
       /\ IF cap = "frame"
          THEN /\ callsIssued' = callsIssued + 1
               /\ inFlight' = inFlight \cup {callsIssued + 1}
          ELSE UNCHANGED <<inFlight, callsIssued>>

(* ----------------------- analyzeSessionSnapshot ------------------------ *)
(* What one run of the AI request can end in: a parsed answer, getAiClient *)
(* throwing, generateContent rejecting, an empty response.text, or         *)
(* JSON.parse throwing.                                                    *)
AIOutcomes ==
  {"ok", "missing_key", "network_error", "empty_response", "unparsable"}

(* What a retry of a failed request can end in: the failure has cleared   *)
(* or it persists.                                                         *)
RetryOutcomes == {"ok", "network_error"}

MaxAttempts == DefaultRetries + 1

(* The ways the attempts of one call can end, first attempt first. *)
CallOutcomes ==
  {outs \in [1..MaxAttempts -> AIOutcomes] :
     \A k \in 2..MaxAttempts : outs[k] \in RetryOutcomes}

(* The object literal returned by the catch block. *)
FallbackResult == [fallback |-> TRUE, nsug |-> 1]

(* JSON.parse(response.text) as AnalysisResult *)
ParsedResult(n) == [fallback |-> FALSE, nsug |-> n]

(* The nsug of an answer whose JSON has no suggestions array: the cast to  *)
(* AnalysisResult checks nothing.                                          *)
NoTexts == 0 - 1

(* What a parsed answer can carry under `suggestions`. *)
AnswerShapes(counts) == counts \cup {NoTexts}

(* A mutant of the attempt: the catch block rethrows. *)
AttemptRethrows(outcome, n) ==
  [threw |-> outcome # "ok",
   value |-> IF outcome = "ok" THEN ParsedResult(n) ELSE FallbackResult]

(* The function handed to withRetry: try { ... } catch { return fallback } *)
Attempt(outcome, n) ==
  [threw |-> FALSE,
   value |-> IF outcome = "ok" THEN ParsedResult(n) ELSE FallbackResult]

(* withRetry(fn, retries = 2, delay = 1000): attempt k of the call whose   *)
(* attempts end as outs[1], outs[2], ...; delays are the waits in ms.      *)
RECURSIVE WithRetry(_, _, _, _, _)
WithRetry(outs, n, k, retries, delay) ==
  LET r == Attempt(outs[k], n) IN
    IF ~r.threw
    THEN [rejected |-> FALSE, value |-> r.value, attempts |-> k,
          delays |-> <<>>]
    ELSE IF retries <= 0
    THEN [rejected |-> TRUE, value |-> r.value, attempts |-> k,
          delays |-> <<>>]
    ELSE LET rest == WithRetry(outs, n, k + 1, retries - 1, delay * 2) IN
           [rest EXCEPT !.delays = <<delay>> \o @]

AnalyzeSessionSnapshot(outs, n) ==
  WithRetry(outs, n, 1, DefaultRetries, DefaultDelay)

(* A mutant of the append: the new result replaces the sequence. *)
ReplaceSample(prev, result) == <<result>>

(* setMetricsHistory(prev => [...prev, result]) *)
AppendSample(prev, result) == Append(prev, result)

(* result.suggestions.map(...) throws a TypeError when the answer has no  *)
(* suggestions array.                                                      *)
MapThrows(result) == result.nsug = NoTexts

(* result.suggestions.map(...): one Suggestion per text of the result. *)
NewSuggestions(result) == [i \in 1..result.nsug |-> <<result.tick, i>>]

(* A mutant of the prepending: the new entries go to the end. *)
AppendSuggestions(prev, result) ==
  Take(prev \o NewSuggestions(result), SuggestionCapacity)

(* setLiveSuggestions(prev => [...newSuggestions, ...prev].slice(0, 6)) *)
PrependSuggestions(prev, result) ==
  Take(NewSuggestions(result) \o prev, SuggestionCapacity)

(* A mutant of the finally block: the flag is cleared on the normal path   *)
(* only.                                                                   *)
FlagAfterSettleNoFinally(threw) == threw

(* isAnalyzingRef.current after the continuation of performAnalysis:       *)
(* `finally { isAnalyzingRef.current = false; }`                           *)
FlagAfterSettle(threw) == FALSE

(* ------------------------- unmount and cleanup ------------------------- *)
(* window.clearInterval(id) behind an `if (id)` test. *)
ClearInterval(id, ivs) == IF id # 0 THEN ivs \ {id} ELSE ivs

(* The cleanup function of the component's first effect: it stops the     *)
(* tracks of streamRef.current and clears the analysis interval.           *)
Cleanup(ivs) ==
  /\ stoppedStreams' =
       stoppedStreams \cup (IF streamRef # 0 THEN {streamRef} ELSE {})
  /\ stopCalls' = IF streamRef # 0 THEN Append(stopCalls, streamRef)
                                   ELSE stopCalls
  /\ activeIntervals' = ClearInterval(analysisInterval, ivs)

(* React unmounts the component and runs the cleanup function. *)
Unmount(ivs) ==
  /\ mounted' = FALSE
  /\ Cleanup(ivs)

(* The await at which a new execution of handleEndSession stops first:    *)
(* blobToBase64 when there is a blob, else generatePostSessionSummary.     *)
FirstStage(b) == IF b.present THEN "blob" ELSE "summary"

(* The stage of the execution begun last, "none" before the first. *)
StageOfLast ==
  IF endCalls = <<>> THEN "none" ELSE endCalls[Len(endCalls)].stage

(* onEndSession(metrics, blob): App.handleEndSession records the call and  *)
(* sets isProcessingEnd, which replaces <LiveSession> in the tree; it runs *)
(* to its first await.                                                     *)
EndCall(m, b, from) ==
  [metrics |-> m, blob |-> b, duration |-> Len(m) * SecondsPerSample,
   history |-> metricsHistory, elapsed |-> elapsedTime, via |-> from,
   stage |-> FirstStage(b), begunDuring |-> StageOfLast]

(* ----------------------------- startSession ---------------------------- *)
(* A mutant of the timer: the id is kept but no interval runs. *)
SetIntervalDropped ==
  /\ analysisInterval' = nextTimerId
  /\ activeIntervals' = activeIntervals
  /\ nextTimerId' = nextTimerId + 1

(* analysisInterval.current = window.setInterval(performAnalysis, 4000) *)
SetInterval ==
  /\ analysisInterval' = nextTimerId
  /\ activeIntervals' = activeIntervals \cup {nextTimerId}
  /\ nextTimerId' = nextTimerId + 1

StartSession(rec, cap) ==
  IF stream = 0
  THEN UNCHANGED progVars
  ELSE /\ sessionState' = "live"
       /\ metricsHistory' = <<>>
       /\ liveSuggestions' = <<>>
       /\ elapsedTime' = 0
       /\ chunksRef' = <<>>
       /\ SetInterval
       /\ CASE rec = "ok" ->
                 /\ mediaRecorderRef' = "recorder"
                 /\ onstopMetrics' = metricsHistory
                 /\ recorderState' = "recording"
                 /\ recorderStarted' = TRUE
                 /\ PerformAnalysis(cap)
            [] rec = "start_throws" ->
                 /\ mediaRecorderRef' = "recorder"
                 /\ onstopMetrics' = metricsHistory
                 /\ recorderState' = recorderState
                 /\ UNCHANGED <<recorderStarted, isAnalyzingRef, inFlight,
                                callsIssued, captures, busyTicks>>
            [] rec = "ctor_throws" ->
                 UNCHANGED <<mediaRecorderRef, onstopMetrics, recorderState,
                             recorderStarted, isAnalyzingRef, inFlight, callsIssued, captures,
                             busyTicks>>
       /\ UNCHANGED <<mounted, stream, streamRef, cameraError, pendingAccess,
                      grantedStreams, stoppedStreams, stopCalls, currentMetrics,
                      stopEventPending, endCalls, stopRequests,
                      outstandingAtStop, sessionHistory>>

(* ----------------------------- stopSession ----------------------------- *)
(* A mutant of the test: the recorder's state is not consulted. *)
RecorderRefSet == mediaRecorderRef = "recorder"

(* mediaRecorderRef.current && mediaRecorderRef.current.state !== 'inactive' *)
RecorderActive == mediaRecorderRef = "recorder" /\ recorderState # "inactive"

StopSession ==
  /\ stopRequests' = stopRequests + 1
  /\ outstandingAtStop' = outstandingAtStop \cup inFlight
  /\ IF RecorderActive
     THEN /\ recorderState' = "inactive"
          /\ stopEventPending' = TRUE
          /\ activeIntervals' = ClearInterval(analysisInterval, activeIntervals)
          /\ UNCHANGED <<mounted, stoppedStreams, stopCalls, endCalls>>
     ELSE /\ endCalls' =
               Append(endCalls, EndCall(metricsHistory, NoBlob, "stopSession"))
          /\ Unmount(ClearInterval(analysisInterval, activeIntervals))
          /\ UNCHANGED <<recorderState, stopEventPending>>
  /\ UNCHANGED <<sessionState, stream, streamRef, cameraError, pendingAccess,
                 grantedStreams, metricsHistory, currentMetrics,
                 liveSuggestions, elapsedTime, chunksRef, mediaRecorderRef,
                 onstopMetrics, analysisInterval, nextTimerId, isAnalyzingRef,
                 inFlight, callsIssued, captures, busyTicks, recorderStarted,
                 sessionHistory>>

(* ------------------------------- events -------------------------------- *)
(* The "Enable Camera & Mic" button, rendered in the permission view. *)
RequestAccess(limit) ==
  /\ mounted /\ sessionState = "permission"
  /\ pendingAccess < limit
  /\ cameraError' = "null"
  /\ pendingAccess' = pendingAccess + 1
  /\ lastEvent' = "requestMediaAccess"
  /\ UNCHANGED <<mounted, sessionState, stream, streamRef, grantedStreams,
                 stoppedStreams, stopCalls, metricsHistory, currentMetrics,
                 liveSuggestions, elapsedTime, chunksRef, mediaRecorderRef,
                 recorderState, stopEventPending, onstopMetrics,
                 analysisInterval, activeIntervals, nextTimerId,
                 isAnalyzingRef, inFlight, callsIssued, captures, busyTicks,
                 endCalls, stopRequests, outstandingAtStop, recorderStarted,
                 sessionHistory>>

RequestMediaAccess == RequestAccess(MaxAccess)

(* getUserMedia resolves: the continuation of requestMediaAccess. *)
AccessGranted ==
  /\ pendingAccess > 0
  /\ pendingAccess' = pendingAccess - 1
  /\ LET id == Cardinality(grantedStreams) + 1 IN
       /\ grantedStreams' = grantedStreams \cup {id}
       /\ streamRef' = id
       /\ stream' = IF mounted THEN id ELSE stream
  /\ sessionState' = IF mounted THEN "green-room" ELSE sessionState
  /\ lastEvent' = "accessGranted"
  /\ UNCHANGED <<mounted, cameraError, stoppedStreams, stopCalls, metricsHistory,
                 currentMetrics, liveSuggestions, elapsedTime, chunksRef,
                 mediaRecorderRef, recorderState, stopEventPending,
                 onstopMetrics, analysisInterval, activeIntervals, nextTimerId,
                 isAnalyzingRef, inFlight, callsIssued, captures, busyTicks,
                 endCalls, stopRequests, outstandingAtStop, recorderStarted,
                 sessionHistory>>

(* A mutant of the categories: the two messages are swapped. *)
ErrorMessageSwapped(err) ==
  IF err = "NotAllowedError" THEN "Could not access camera."
  ELSE "Camera access denied."

(* err.name === 'NotAllowedError' ? "Camera access denied." : "Could not   *)
(* access camera."                                                         *)
ErrorMessage(err) ==
  IF err = "NotAllowedError" THEN "Camera access denied."
  ELSE "Could not access camera."

DeniedEvent(err) ==
  IF err = "NotAllowedError" THEN "accessDenied.NotAllowedError"
  ELSE "accessDenied.other"

(* getUserMedia rejects: the catch block of requestMediaAccess. *)
AccessDenied(err) ==
  /\ pendingAccess > 0
  /\ pendingAccess' = pendingAccess - 1
  /\ cameraError' = IF mounted THEN ErrorMessage(err) ELSE cameraError
  /\ lastEvent' = DeniedEvent(err)
  /\ UNCHANGED <<mounted, sessionState, stream, streamRef, grantedStreams,
                 stoppedStreams, stopCalls, metricsHistory, currentMetrics,
                 liveSuggestions, elapsedTime, chunksRef, mediaRecorderRef,
                 recorderState, stopEventPending, onstopMetrics,
                 analysisInterval, activeIntervals, nextTimerId,
                 isAnalyzingRef, inFlight, callsIssued, captures, busyTicks,
                 endCalls, stopRequests, outstandingAtStop, recorderStarted,
                 sessionHistory>>

(* The "Start Session" button, rendered in the green-room view. *)
ClickStart ==
  /\ mounted /\ sessionState = "green-room"
  /\ \E rec \in RecorderOutcomes, cap \in CaptureOutcomes :
       StartSession(rec, cap)
  /\ lastEvent' = "clickStart"

(* The "End Session" button, rendered in the live view. *)
ClickStop ==
  /\ mounted /\ sessionState = "live"
  /\ StopSession
  /\ lastEvent' = "clickStop"

(* handleSessionKeyDown on the START_STOP_SESSION shortcut. *)
KeyDown ==
  /\ mounted
  /\ lastEvent' = "keyDown"
  /\ CASE sessionState = "green-room" ->
            \E rec \in RecorderOutcomes, cap \in CaptureOutcomes :
              StartSession(rec, cap)
       [] sessionState = "live" -> StopSession
       [] OTHER -> UNCHANGED progVars

(* What captureFrame can do: after the unmount videoRef.current and       *)
(* canvasRef.current are null and it returns null.                         *)
CaptureOutcomesNow == IF mounted THEN CaptureOutcomes ELSE {"none"}

(* A 4000 ms interval that window still runs fires performAnalysis. *)
AnalysisTick ==
  /\ activeIntervals # {}
  /\ IF AnalysisGuard THEN busyTicks < MaxBusyTicks
                      ELSE captures < MaxCaptures
  /\ \E cap \in CaptureOutcomesNow : PerformAnalysis(cap)
  /\ lastEvent' = "analysisTick"
  /\ UNCHANGED <<mounted, sessionState, stream, streamRef, cameraError,
                 pendingAccess, grantedStreams, stoppedStreams, stopCalls, metricsHistory,
                 currentMetrics, liveSuggestions, elapsedTime, chunksRef,
                 mediaRecorderRef, recorderState, stopEventPending,
                 onstopMetrics, analysisInterval, activeIntervals, nextTimerId,
                 endCalls, stopRequests, outstandingAtStop, recorderStarted,
                 sessionHistory>>

(* What analyzeSessionSnapshot can settle to, over all the ways its        *)
(* attempts can end; `failed` keeps whether the first attempt failed.      *)
CallResultsOf(counts) ==
  {LET r == AnalyzeSessionSnapshot(outs, n) IN
     [rejected |-> r.rejected, value |-> r.value, attempts |-> r.attempts,
      delays |-> r.delays, failed |-> outs[1] # "ok"] :
       outs \in CallOutcomes, n \in AnswerShapes(counts)}

CallResults == CallResultsOf(SuggestionCounts)

(* analyzeSessionSnapshot settles: performAnalysis after its await.  The   *)
(* sample keeps, next to what the code stores, how the call went.          *)
Settle(results) ==
  \E t \in inFlight, r \in results :
    LET result == [tick |-> t, nsug |-> r.value.nsug,
                   fallback |-> r.value.fallback, failed |-> r.failed,
                   attempts |-> r.attempts, delays |-> r.delays]
    IN
      /\ inFlight' = inFlight \ {t}
      /\ isAnalyzingRef' = FlagAfterSettle(~r.rejected /\ MapThrows(result))
      /\ IF mounted /\ ~r.rejected
         THEN /\ currentMetrics' = t
              /\ metricsHistory' = AppendSample(metricsHistory, result)
              /\ liveSuggestions' =
                   IF MapThrows(result) THEN liveSuggestions
                   ELSE PrependSuggestions(liveSuggestions, result)
         ELSE UNCHANGED <<currentMetrics, metricsHistory, liveSuggestions>>
      /\ lastEvent' = IF r.rejected THEN "analysisReject" ELSE "analysisResolve"
      /\ UNCHANGED <<mounted, sessionState, stream, streamRef, cameraError,
                     pendingAccess, grantedStreams, stoppedStreams, stopCalls,
                     elapsedTime, chunksRef, mediaRecorderRef, recorderState,
                     stopEventPending, onstopMetrics, analysisInterval,
                     activeIntervals, nextTimerId, callsIssued, captures,
                     busyTicks, endCalls, stopRequests, outstandingAtStop,
                     recorderStarted,
                 sessionHistory>>

AnalysisResolve == Settle(CallResults)

(* The one-second interval of the elapsed-time effect. *)
ElapsedTick ==
  /\ mounted /\ sessionState = "live"
  /\ elapsedTime < MaxElapsed
  /\ elapsedTime' = elapsedTime + 1
  /\ lastEvent' = "elapsedTick"
  /\ UNCHANGED <<mounted, sessionState, stream, streamRef, cameraError,
                 pendingAccess, grantedStreams, stoppedStreams, stopCalls, metricsHistory,
                 currentMetrics, liveSuggestions, chunksRef, mediaRecorderRef,
                 recorderState, stopEventPending, onstopMetrics,
                 analysisInterval, activeIntervals, nextTimerId,
                 isAnalyzingRef, inFlight, callsIssued, captures, busyTicks,
                 endCalls, stopRequests, outstandingAtStop, recorderStarted,
                 sessionHistory>>

(* The data of a dataavailable event: its size, and for a non-empty chunk  *)
(* its place among the non-empty chunks delivered since the start.         *)
Chunk(size) == [size |-> size, seq |-> Len(chunksRef) + 1]

(* A mutant of the push: the chunk goes to the front of the buffer. *)
PushChunkFront(buf, data) == IF data.size > 0 THEN <<data>> \o buf ELSE buf

(* if (e.data.size > 0) chunksRef.current.push(e.data) *)
PushChunk(buf, data) == IF data.size > 0 THEN Append(buf, data) ELSE buf

ChunkEvent(size) ==
  IF size > 0 THEN "dataAvailable.chunk" ELSE "dataAvailable.empty"

(* recorder.ondataavailable: a timeslice chunk, or the last chunk that     *)
(* precedes the stop event.                                                *)
DataChunk(size, limit) ==
  /\ recorderState = "recording" \/ stopEventPending
  /\ Len(chunksRef) < limit
  /\ chunksRef' = PushChunk(chunksRef, Chunk(size))
  /\ lastEvent' = ChunkEvent(size)
  /\ UNCHANGED <<mounted, sessionState, stream, streamRef, cameraError,
                 pendingAccess, grantedStreams, stoppedStreams, stopCalls, metricsHistory,
                 currentMetrics, liveSuggestions, elapsedTime,
                 mediaRecorderRef, recorderState, stopEventPending,
                 onstopMetrics, analysisInterval, activeIntervals, nextTimerId,
                 isAnalyzingRef, inFlight, callsIssued, captures, busyTicks,
                 endCalls, stopRequests, outstandingAtStop, recorderStarted,
                 sessionHistory>>

DataAvailable(size) == DataChunk(size, MaxChunks)

(* recorder.onstop: the recorder's stop event. *)
RecorderStop ==
  /\ stopEventPending
  /\ stopEventPending' = FALSE
  /\ endCalls' =
       Append(endCalls, EndCall(onstopMetrics, Blob(chunksRef), "onstop"))
  /\ IF mounted
     THEN Unmount(activeIntervals)
     ELSE UNCHANGED <<mounted, stoppedStreams, stopCalls, activeIntervals>>
  /\ lastEvent' = "recorderStop"
  /\ UNCHANGED <<sessionState, stream, streamRef, cameraError, pendingAccess,
                 grantedStreams, metricsHistory, currentMetrics,
                 liveSuggestions, elapsedTime, chunksRef, mediaRecorderRef,
                 recorderState, onstopMetrics, analysisInterval, nextTimerId,
                 isAnalyzingRef, inFlight, callsIssued, captures, busyTicks,
                 stopRequests, outstandingAtStop, recorderStarted,
                 sessionHistory>>

(* The "Exit Session" button of App: setView('home') unmounts the          *)
(* component; stopping the tracks ends a running recorder.                 *)
Teardown ==
  /\ mounted
  /\ Unmount(activeIntervals)
  /\ recorderState' = "inactive"
  /\ stopEventPending' = (stopEventPending \/ recorderState = "recording")
  /\ lastEvent' = "teardown"
  /\ UNCHANGED <<sessionState, stream, streamRef, cameraError, pendingAccess,
                 grantedStreams, metricsHistory, currentMetrics,
                 liveSuggestions, elapsedTime, chunksRef, mediaRecorderRef,
                 onstopMetrics, analysisInterval, nextTimerId, isAnalyzingRef,
                 inFlight, callsIssued, captures, busyTicks, endCalls,
                 stopRequests, outstandingAtStop, recorderStarted,
                 sessionHistory>>

Next ==
  \/ RequestMediaAccess
  \/ AccessGranted
  \/ \E err \in AccessErrors : AccessDenied(err)
  \/ ClickStart
  \/ ClickStop
  \/ KeyDown
  \/ AnalysisTick
  \/ AnalysisResolve
  \/ ElapsedTick
  \/ \E size \in 0..1 : DataAvailable(size)
  \/ RecorderStop
  \/ Teardown

Spec == Init /\ [][Next]_vars

(* The permission view with overlapping clicks on "Enable Camera & Mic".  *)
RequestMediaAccessAgain == RequestAccess(MaxRequests)

NextRequests ==
  \/ RequestMediaAccessAgain
  \/ AccessGranted
  \/ \E err \in AccessErrors : AccessDenied(err)
  \/ ClickStart
  \/ ClickStop
  \/ KeyDown
  \/ AnalysisTick
  \/ AnalysisResolve
  \/ ElapsedTick
  \/ \E size \in 0..1 : DataAvailable(size)
  \/ RecorderStop
  \/ Teardown

SpecRequests == Init /\ [][NextRequests]_vars

(* The cleanup function invoked again after the unmount, as a caller that  *)
(* holds the function can do.                                              *)
TeardownAgain ==
  /\ ~mounted
  /\ Len(stopCalls) < MaxCleanupRuns
  /\ Cleanup(activeIntervals)
  /\ lastEvent' = "teardownAgain"
  /\ UNCHANGED <<mounted, sessionState, stream, streamRef, cameraError,
                 pendingAccess, grantedStreams, metricsHistory, currentMetrics,
                 liveSuggestions, elapsedTime, chunksRef, mediaRecorderRef,
                 recorderState, stopEventPending, onstopMetrics,
                 analysisInterval, nextTimerId, isAnalyzingRef, inFlight,
                 callsIssued, captures, busyTicks, endCalls, stopRequests,
                 outstandingAtStop, recorderStarted,
                 sessionHistory>>

NextTeardown ==
  \/ RequestMediaAccess
  \/ AccessGranted
  \/ \E err \in AccessErrors : AccessDenied(err)
  \/ ClickStart
  \/ ClickStop
  \/ KeyDown
  \/ AnalysisTick
  \/ AnalysisResolve
  \/ ElapsedTick
  \/ \E size \in 0..1 : DataAvailable(size)
  \/ RecorderStop
  \/ Teardown
  \/ TeardownAgain

SpecTeardown == Init /\ [][NextTeardown]_vars

(* A recording of several chunks. *)
DataAvailableMany(size) == DataChunk(size, MaxBuffered)

NextRecording ==
  \/ RequestMediaAccess
  \/ AccessGranted
  \/ \E err \in AccessErrors : AccessDenied(err)
  \/ ClickStart
  \/ ClickStop
  \/ KeyDown
  \/ AnalysisTick
  \/ AnalysisResolve
  \/ ElapsedTick
  \/ \E size \in 0..1 : DataAvailableMany(size)
  \/ RecorderStop
  \/ Teardown

SpecRecording == Init /\ [][NextRecording]_vars

(* Answers that carry no text or many: the description of the schema      *)
(* ("max 3") is advice to the model, not a limit of the array.             *)
TextCounts == {0, MaxTexts}

AnalysisResolveTexts == Settle(CallResultsOf(TextCounts))

NextSuggestions ==
  \/ RequestMediaAccess
  \/ AccessGranted
  \/ \E err \in AccessErrors : AccessDenied(err)
  \/ ClickStart
  \/ ClickStop
  \/ KeyDown
  \/ AnalysisTick
  \/ AnalysisResolveTexts
  \/ ElapsedTick
  \/ \E size \in 0..1 : DataAvailable(size)
  \/ RecorderStop
  \/ Teardown

SpecSuggestions == Init /\ [][NextSuggestions]_vars

(* ------------------------- App.handleEndSession ------------------------ *)
(* The variables of the controller, which App's continuations leave alone. *)
ctlVars == <<mounted, sessionState, stream, streamRef, cameraError,
             pendingAccess, grantedStreams, stoppedStreams, stopCalls,
             metricsHistory, currentMetrics, liveSuggestions, elapsedTime,
             chunksRef, mediaRecorderRef, recorderState, stopEventPending,
             onstopMetrics, analysisInterval, activeIntervals, nextTimerId,
             isAnalyzingRef, inFlight, callsIssued, captures, busyTicks,
             stopRequests, outstandingAtStop, recorderStarted>>

(* metrics.confidence of a sample: that of the fallback object, or that of *)
(* a parsed answer.                                                        *)
SampleScores == {FallbackConfidence, ParsedConfidence}

(* The sample sequences and blobs handleEndSession is invoked with: no     *)
(* sample (the recorder's stop event hands over []) or MaxSamples samples. *)
SampleCounts == {0, MaxSamples}

MetricsInputs ==
  UNION {[1..n -> [confidence : SampleScores]] : n \in SampleCounts}

BlobInputs == {NoBlob, Blob(<<[size |-> 1, seq |-> 1]>>)}

RECURSIVE SumConfidence(_)
SumConfidence(m) ==
  IF m = <<>> THEN 0 ELSE m[1].confidence + SumConfidence(Tail(m))

(* Math.round(x / total) for x >= 0 *)
Round(x, total) == (2 * x + total) \div (2 * total)

(* const total = metrics.length || 1; Math.round(sums.confidence / total) *)
AverageConfidence(m) ==
  Round(SumConfidence(m), IF Len(m) = 0 THEN 1 ELSE Len(m))

(* What generatePostSessionSummary returns when the request failed or gave *)
(* no text, and what handleEndSession keeps when the call rejects.         *)
ServicePlaceholder ==
  [summary |-> "Session recorded.",
   script |-> "Practice your introduction again."]

DefaultSummary ==
  [summary |-> "Session recorded.", script |-> "Practice again."]

GeneratedSummary == [summary |-> "generated", script |-> "generated"]

(* The function generatePostSessionSummary hands to withRetry: it catches  *)
(* every failure, so withRetry returns its first result.                   *)
GeneratePostSessionSummary(outcome) ==
  [threw |-> FALSE,
   value |-> IF outcome = "ok" THEN GeneratedSummary ELSE ServicePlaceholder]

(* try { summaryData = await generatePostSessionSummary(...) } catch {...} *)
SummaryData(outcome) ==
  LET r == GeneratePostSessionSummary(outcome) IN
    IF r.threw THEN DefaultSummary ELSE r.value

(* const newSession: SessionData = { ... } for execution i *)
NewSession(i, outcome) ==
  [call |-> i,
   durationSeconds |-> endCalls[i].duration,
   averageConfidence |-> AverageConfidence(endCalls[i].metrics),
   transcriptSummary |-> SummaryData(outcome).summary,
   improvementScript |-> SummaryData(outcome).script,
   video |-> endCalls[i].blob.present]

(* A mutant of the recording: the history is set without the new session. *)
RecordSessionDropped(hist, session) == hist

(* const updatedHistory = [...sessionHistory, newSession] *)
RecordSession(hist, session) == Append(hist, session)

(* The controller invokes onEndSession: handleEndSession up to its first   *)
(* await.                                                                  *)
HandleEndSession(m, b) ==
  /\ Len(endCalls) < MaxEndCalls
  /\ endCalls' = Append(endCalls, EndCall(m, b, "controller"))
  /\ lastEvent' = "handleEndSession"
  /\ UNCHANGED <<ctlVars, sessionHistory>>

(* blobToBase64 settles; a rejection is caught and logged. *)
BlobConverted(i) ==
  /\ endCalls[i].stage = "blob"
  /\ endCalls' = [endCalls EXCEPT ![i].stage = "summary"]
  /\ lastEvent' = "blobConverted"
  /\ UNCHANGED <<ctlVars, sessionHistory>>

SummaryEvent(outcome) ==
  IF outcome = "ok" THEN "summaryGenerated" ELSE "summaryFailed"

(* generatePostSessionSummary settles: the session is built and set, and   *)
(* the execution goes on to the inserts of supabase.                       *)
SummarySettled(i, outcome) ==
  /\ endCalls[i].stage = "summary"
  /\ endCalls' = [endCalls EXCEPT ![i].stage = "saving"]
  /\ sessionHistory' = RecordSession(HistoryAtMount, NewSession(i, outcome))
  /\ lastEvent' = SummaryEvent(outcome)
  /\ UNCHANGED ctlVars

(* The insert and the profile update settle (an error is caught); the view *)
(* is set to the dashboard and isProcessingEnd cleared.                    *)
PersistSettled(i) ==
  /\ endCalls[i].stage = "saving"
  /\ endCalls' = [endCalls EXCEPT ![i].stage = "done"]
  /\ lastEvent' = "persistSettled"
  /\ UNCHANGED <<ctlVars, sessionHistory>>

NextApp ==
  \/ \E m \in MetricsInputs, b \in BlobInputs : HandleEndSession(m, b)
  \/ \E i \in 1..Len(endCalls) : BlobConverted(i)
  \/ \E i \in 1..Len(endCalls), outcome \in AIOutcomes :
       SummarySettled(i, outcome)
  \/ \E i \in 1..Len(endCalls) : PersistSettled(i)

SpecApp == Init /\ [][NextApp]_vars

TypeOK ==
  /\ mounted \in BOOLEAN
  /\ sessionState \in {"permission", "green-room", "live"}
  /\ isAnalyzingRef \in BOOLEAN
  /\ inFlight \subseteq 1..callsIssued
  /\ callsIssued <= captures

(* ------------------------------ phases --------------------------------- *)
(* The SessionPhase of the specification, read off the component: the      *)
(* source has no value for Terminated, which the specification enters on   *)
(* stop().                                                                 *)
StopProcessed == stopRequests > 0

IsStartStopEvent == lastEvent' \in {"clickStart", "clickStop", "keyDown"}

IsStopRequest ==
  /\ lastEvent' \in {"clickStop", "keyDown"}
  /\ sessionState = "live"

Ticks(samples) == {samples[i].tick : i \in 1..Len(samples)}

(* ------------------------------- claims -------------------------------- *)

(* C1: in every reachable state at most one analyzeSessionSnapshot call of *)
(* the controller is outstanding.                                          *)
C1_AtMostOneInFlight == Cardinality(inFlight) <= 1

(* A timer tick has fired while the one call was outstanding. *)
C1_Witness == Cardinality(inFlight) = 1 /\ busyTicks > 0 /\ callsIssued > 1

(* C2: every invocation of onEndSession receives the full sequence of      *)
(* samples appended since the session entered Active, with or without a    *)
(* running recorder.                                                       *)
C2_FullSequenceHandedOff ==
  \A i \in 1..Len(endCalls) : endCalls[i].metrics = endCalls[i].history

(* C3: a call that was outstanding at stop() and has resolved since is     *)
(* part of the sample sequence handed to onEndSession.                     *)
C3_PendingSampleHandedOff ==
  \A t \in outstandingAtStop :
    (t \notin inFlight /\ endCalls # <<>>) =>
      \E i \in 1..Len(endCalls) : t \in Ticks(endCalls[i].metrics)

(* C4: onEndSession is invoked at most once for the session, whatever the  *)
(* number of stop requests and their interleaving with the recorder's stop *)
(* event.                                                                  *)
C4_FinalizeOnce == Len(endCalls) <= 1

(* C5: a start request outside Preview and a stop request outside Active   *)
(* (in AwaitingPermission, in Preview, or after a stop has been processed) *)
(* changes no state and invokes no collaborator.                           *)
C5_Legality ==
  [][(/\ IsStartStopEvent
      /\ sessionState # "green-room"
      /\ ~(sessionState = "live" /\ ~StopProcessed))
     => UNCHANGED <<mounted, sessionState, metricsHistory, liveSuggestions,
                    elapsedTime, chunksRef, mediaRecorderRef, recorderState,
                    stopEventPending, analysisInterval, activeIntervals,
                    endCalls, stoppedStreams, stopCalls>>]_vars

(* C6: once a stop() has been processed the phase is no longer Active: the *)
(* mounted controller has left the live phase for a terminal one.          *)
C6_StopTerminates == (mounted /\ StopProcessed) => sessionState # "live"

(* C7: a tick that fires while a call is outstanding captures no frame and *)
(* issues no call, and the resolution of a call issues no call either.     *)
C7_SkipIfBusy ==
  [][/\ (lastEvent' = "analysisTick" /\ inFlight # {})
          => /\ captures' = captures
             /\ callsIssued' = callsIssued
             /\ inFlight' = inFlight
     /\ lastEvent' = "analysisResolve"
          => /\ captures' = captures
             /\ callsIssued' = callsIssued
             /\ inFlight' \subseteq inFlight]_vars

(* A tick was skipped, the call has resolved, and no call was issued on    *)
(* the skipped tick's behalf.                                              *)
C7_Witness ==
  busyTicks > 0 /\ inFlight = {} /\ callsIssued = 1 /\ captures = 1

(* C8: while the phase is Active metricsHistory only grows at its end, and *)
(* it is emptied only by startSession.                                     *)
C8_MonotonicAppend ==
  [][/\ (sessionState = "live" /\ sessionState' = "live")
          => IsPrefix(metricsHistory, metricsHistory')
     /\ (metricsHistory' = <<>> /\ metricsHistory # <<>>)
          => (sessionState = "green-room" /\ IsStartStopEvent)]_vars

(* Two samples have been appended during Active. *)
C8_Witness == sessionState = "live" /\ mounted /\ Len(metricsHistory) >= 2

(* C9: the samples of metricsHistory are in the order in which their ticks *)
(* were initiated.                                                         *)
C9_InitiationOrder ==
  \A i, j \in 1..Len(metricsHistory) :
    i < j => metricsHistory[i].tick < metricsHistory[j].tick

(* Two samples of different ticks are in the sequence. *)
C9_Witness == Len(metricsHistory) >= 2 /\ callsIssued >= 2

(* C10: when the recorder never started, a stop request invokes            *)
(* onEndSession in the same step with the sample sequence and no blob.     *)
C10_ImmediateFinalize ==
  [][(IsStopRequest /\ ~recorderStarted)
     => /\ Len(endCalls') = Len(endCalls) + 1
        /\ endCalls'[Len(endCalls')].metrics = metricsHistory
        /\ ~endCalls'[Len(endCalls')].blob.present]_vars

(* A session without recorder has been finalized with a sample. *)
C10_Witness ==
  /\ ~recorderStarted
  /\ Len(endCalls) = 1
  /\ endCalls[1].metrics # <<>>
  /\ ~endCalls[1].blob.present

IsDeniedEvent ==
  lastEvent' \in {"accessDenied.NotAllowedError", "accessDenied.other"}

StopCount(g) == Cardinality({i \in 1..Len(stopCalls) : stopCalls[i] = g})

(* C11: whatever way the AI request fails, analyzeSessionSnapshot never    *)
(* rejects; the continuation of performAnalysis clears the in-flight flag  *)
(* and, in a mounted controller, appends exactly one sample for the tick,  *)
(* which is the neutral fallback when the request failed.                  *)
C11_FallbackGuarantee ==
  [][lastEvent' \in {"analysisResolve", "analysisReject"}
     => /\ lastEvent' = "analysisResolve"
        /\ ~isAnalyzingRef'
        /\ mounted =>
             /\ Len(metricsHistory') = Len(metricsHistory) + 1
             /\ SubSeq(metricsHistory', 1, Len(metricsHistory)) = metricsHistory
             /\ LET s == metricsHistory'[Len(metricsHistory')] IN
                  s.failed => (s.fallback /\ s.nsug = 1)]_vars

(* Every tick captured a frame, every request failed, and each tick has    *)
(* its fallback sample.                                                    *)
C11_Witness ==
  /\ mounted /\ ~isAnalyzingRef
  /\ callsIssued >= 2 /\ captures = callsIssued
  /\ Len(metricsHistory) = callsIssued
  /\ \A i \in 1..Len(metricsHistory) :
       metricsHistory[i].failed /\ metricsHistory[i].fallback

(* C12: a fallback sample is returned only after three failed attempts,    *)
(* the retries following waits of 1000 ms and 2000 ms.                     *)
C12_RetriesBeforeFallback ==
  \A i \in 1..Len(metricsHistory) :
    metricsHistory[i].fallback =>
      /\ metricsHistory[i].attempts = MaxAttempts
      /\ metricsHistory[i].delays = <<DefaultDelay, 2 * DefaultDelay>>

(* C13: at the unmount of the controller every stream that getUserMedia    *)
(* has handed out so far has its tracks stopped.                           *)
C13_StreamsReleased ==
  [][(mounted /\ ~mounted') => grantedStreams \subseteq stoppedStreams']_vars

(* C14: however often the cleanup function runs, stop() is invoked at most *)
(* once on the tracks of a stream.                                         *)
C14_StopOncePerTrack == \A g \in grantedStreams : StopCount(g) <= 1

C16_ImmediateTick ==
  [][(sessionState # "live" /\ sessionState' = "live")
     => captures' = captures + 1]_vars

(* C17: a start whose recorder could not be constructed or started still   *)
(* enters the live phase with the analysis interval running, and reports   *)
(* no error.                                                               *)
C17_StartWithoutRecorder ==
  [][(IsStartStopEvent /\ sessionState = "green-room" /\ ~recorderStarted')
     => /\ sessionState' = "live"
        /\ mounted'
        /\ analysisInterval' \in activeIntervals'
        /\ cameraError' = cameraError]_vars

(* A session runs without recorder and its interval has issued a call. *)
C17_Witness ==
  /\ mounted /\ sessionState = "live" /\ ~recorderStarted
  /\ analysisInterval \in activeIntervals
  /\ callsIssued > 0

(* C18: a rejected getUserMedia leaves the phase alone, sets the message   *)
(* of its category and issues no new request; a request clears the         *)
(* message; a granted request moves a mounted controller to the green      *)
(* room.                                                                   *)
C18_AccessErrors ==
  [][/\ (IsDeniedEvent /\ mounted)
          => /\ sessionState' = sessionState
             /\ pendingAccess' = pendingAccess - 1
             /\ cameraError' =
                  IF lastEvent' = "accessDenied.NotAllowedError"
                  THEN "Camera access denied."
                  ELSE "Could not access camera."
     /\ lastEvent' = "requestMediaAccess" => cameraError' = "null"
     /\ (lastEvent' = "accessGranted" /\ mounted)
          => sessionState' = "green-room"]_vars

(* The permission was refused and no request is pending. *)
C18_Witness ==
  /\ mounted /\ sessionState = "permission" /\ pendingAccess = 0
  /\ cameraError = "Camera access denied."
  /\ lastEvent = "accessDenied.NotAllowedError"

(* C19: once a stop has been processed elapsedTime no longer changes. *)
C19_ElapsedStops == [][StopProcessed => elapsedTime' = elapsedTime]_vars

(* C20: the duration recorded for a session equals the elapsed-time        *)
(* counter of the controller.                                              *)
C20_DurationIsElapsed ==
  \A i \in 1..Len(endCalls) : endCalls[i].duration = endCalls[i].elapsed

(* C24: a run of performAnalysis whose captureFrame yields nothing issues   *)
(* no call, appends no sample, reports no error and leaves the in-flight   *)
(* flag clear with the interval running, so that the next tick captures    *)
(* again.                                                                  *)
C24_CaptureFailureSkipped ==
  [][(captures' = captures + 1 /\ callsIssued' = callsIssued)
     => /\ inFlight' = inFlight
        /\ Len(metricsHistory') <= Len(metricsHistory)
        /\ cameraError' = cameraError
        /\ ~isAnalyzingRef'
        /\ activeIntervals' # {}]_vars

(* Two ticks in a row attempted a capture and neither got a frame. *)
C24_Witness ==
  /\ mounted /\ captures = 2 /\ callsIssued = 0
  /\ ~isAnalyzingRef /\ lastEvent = "analysisTick"

(* C26: without a stop request onEndSession is never invoked, in           *)
(* particular not after the controller was torn down while recording.      *)
C26_NoFinalizeWithoutStop == (stopRequests = 0) => endCalls = <<>>

(* C27: window runs at most one analysis interval, and none once a stop    *)
(* has been processed or the controller is unmounted.                      *)
C27_SingleInterval ==
  /\ Cardinality(activeIntervals) <= 1
  /\ (StopProcessed \/ ~mounted) => activeIntervals = {}

(* C28: the in-flight flag is set only while a call is outstanding: a call *)
(* that has settled, a capture that failed and a continuation that threw   *)
(* all leave it clear.                                                     *)
C28_FlagReleased == isAnalyzingRef => inFlight # {}

(* The continuation threw on an answer without suggestions, and a later    *)
(* tick has issued its call.                                               *)
C28_Witness ==
  \E i \in 1..Len(metricsHistory) :
    /\ metricsHistory[i].nsug = NoTexts
    /\ metricsHistory[i].tick < callsIssued

(* C29: once the controller is unmounted and no request is pending, every  *)
(* stream that getUserMedia handed out has its tracks stopped.              *)
C29_NoLostStream ==
  (~mounted /\ pendingAccess = 0) => grantedStreams \subseteq stoppedStreams

IsChunkEvent == lastEvent' \in {"dataAvailable.chunk", "dataAvailable.empty"}

(* C25: a start empties chunksRef; afterwards only a dataavailable event   *)
(* changes it, a non-empty chunk by one entry at the end and an empty one   *)
(* not at all; the blob handed over at the recorder's stop event holds the *)
(* buffer as it is then.                                                   *)
C25_RecordingBuffer ==
  [][/\ (IsStartStopEvent /\ sessionState = "green-room") => chunksRef' = <<>>
     /\ lastEvent' = "dataAvailable.chunk"
          => /\ Len(chunksRef') = Len(chunksRef) + 1
             /\ IsPrefix(chunksRef, chunksRef')
             /\ chunksRef'[Len(chunksRef')].size > 0
     /\ lastEvent' = "dataAvailable.empty" => chunksRef' = chunksRef
     /\ (~IsChunkEvent /\ ~(IsStartStopEvent /\ sessionState = "green-room"))
          => chunksRef' = chunksRef
     /\ lastEvent' = "recorderStop"
          => endCalls'[Len(endCalls')].blob = Blob(chunksRef)]_vars

(* The blob of a finished recording holds its two chunks in the order of   *)
(* their arrival.                                                          *)
C25_Witness ==
  /\ lastEvent = "recorderStop"
  /\ endCalls[Len(endCalls)].blob.present
  /\ Len(endCalls[Len(endCalls)].blob.chunks) = 2
  /\ endCalls[Len(endCalls)].blob.chunks[1].seq = 1
  /\ endCalls[Len(endCalls)].blob.chunks[2].seq = 2

(* The entries of the list that come from the sample of tick t. *)
EntriesOf(list, t) == Cardinality({i \in 1..Len(list) : list[i][1] = t})

(* C21: liveSuggestions holds at most 6 entries, those of a later tick     *)
(* before those of an earlier one; a step that adds entries keeps a prefix *)
(* of the old list behind them, and drops old entries only from a full     *)
(* list.                                                                   *)
C21_BoundedRecentFirst ==
  /\ [](/\ Len(liveSuggestions) <= SuggestionCapacity
        /\ \A i, j \in 1..Len(liveSuggestions) :
             i < j => liveSuggestions[i][1] >= liveSuggestions[j][1])
  /\ [][lastEvent' = "analysisResolve"
        => \E k \in 0..Len(liveSuggestions) :
             /\ k <= Len(liveSuggestions')
             /\ SubSeq(liveSuggestions', Len(liveSuggestions') - k + 1,
                       Len(liveSuggestions'))
                  = SubSeq(liveSuggestions, 1, k)
             /\ \A i \in 1..(Len(liveSuggestions') - k) :
                  liveSuggestions'[i][1] > currentMetrics
             /\ k < Len(liveSuggestions)
                  => Len(liveSuggestions') = SuggestionCapacity]_vars

(* The list is full with the entries of two samples, the older of which    *)
(* has lost entries.                                                       *)
C21_Witness ==
  /\ Len(liveSuggestions) = SuggestionCapacity
  /\ \E i \in 1..Len(metricsHistory) :
       /\ EntriesOf(liveSuggestions, metricsHistory[i].tick) > 0
       /\ EntriesOf(liveSuggestions, metricsHistory[i].tick)
            < metricsHistory[i].nsug

(* C22: no sample has more than 3 entries in liveSuggestions. *)
C22_AtMostThreePerSample ==
  \A t \in 1..callsIssued : EntriesOf(liveSuggestions, t) <= TextsPerSample

(* The entries of the history that execution i of handleEndSession made. *)
SessionsOf(hist, i) == {k \in 1..Len(hist) : hist[k].call = i}

Recorded(i) == endCalls[i].stage \in {"saving", "done"}

(* C23: when the summary request of an execution fails, the history set in *)
(* that step holds exactly one session of the execution, with the average  *)
(* of the samples it received (rounded to the nearest integer) and         *)
(* placeholder texts.                                                      *)
C23_SummaryFailureRecorded ==
  [][lastEvent' = "summaryFailed"
     => \A i \in 1..Len(endCalls) :
          endCalls'[i].stage # endCalls[i].stage
            => /\ Cardinality(SessionsOf(sessionHistory', i)) = 1
               /\ \A k \in SessionsOf(sessionHistory', i) :
                    LET e == sessionHistory'[k]
                        m == endCalls[i].metrics
                        n == IF Len(m) = 0 THEN 1 ELSE Len(m)
                        diff == e.averageConfidence * n - SumConfidence(m)
                    IN /\ 2 * diff <= n /\ 2 * (0 - diff) <= n
                       /\ e.transcriptSummary = "Session recorded."
                       /\ e.improvementScript \in
                            {"Practice again.",
                             "Practice your introduction again."}]_vars

(* A session of two samples, one of either score, was recorded with their  *)
(* rounded average although its summary failed.                            *)
C23_Witness ==
  /\ lastEvent = "summaryFailed"
  /\ \E k \in 1..Len(sessionHistory) :
       /\ Len(endCalls[sessionHistory[k].call].metrics) = 2
       /\ sessionHistory[k].averageConfidence = 78
       /\ sessionHistory[k].transcriptSummary = "Session recorded."

(* C30: when an execution of handleEndSession began while the one before   *)
(* it was awaiting the blob conversion or the summary, and both have set   *)
(* the history, the history holds the sessions of both.                    *)
C30_BothSessionsKept ==
  \A j \in 2..Len(endCalls) :
    (/\ endCalls[j].begunDuring \in {"blob", "summary"}
     /\ Recorded(j - 1) /\ Recorded(j))
      => /\ SessionsOf(sessionHistory, j - 1) # {}
         /\ SessionsOf(sessionHistory, j) # {}

====
